---- MODULE Spec2Model ----
(***************************************************************************)
(* A model of AusarScrubber (src/text/ausarScrubber.py): the boundary      *)
(* cuts cut_head / cut_tail, the pattern strippers, normalize, preprocess, *)
(* the single-document scrub __call__ and the batch driver scrub_pmc.      *)
(*                                                                         *)
(* A Python str is a sequence of one-character strings.  Python indices    *)
(* are 0-based; s[i] in Python is s[i+1] here.  A call that can raise      *)
(* returns a record [exc |-> <exception name or "None">, val |-> <value>]. *)
(***************************************************************************)
EXTENDS Integers, Sequences, FiniteSets, TLC

\* ------------------------------------------------------------------------
\* Bounds of the input spaces.

\* The longest text handed to cut_head / cut_tail.
MaxCutLen == 4

\* The largest number of stopstrings handed to cut_head / cut_tail.
MaxStops == 2

\* The largest number of pieces of a text handed to the strippers and to
\* normalize.
MaxNormTokens == 4

\* The largest number of pieces of a document handed to __call__.
MaxDocTokens == 4

\* The largest number of entries in the subfolders of a corpus.
MaxEntries == 3

VARIABLES
  argText,      \* the str argument of the operation under study
  argStops,     \* the stopstrings argument of cut_head / cut_tail
  op,           \* the operation last applied, "none" before any
  ret,          \* what it returned or raised
  prev,         \* what the operation before it returned
  doc2,         \* the content of the source file at its second scrub
  disk,         \* the output directory, see call
  corpus,       \* scrub_pmc: the listing of each subfolder of pmc_folder
  folderIdx,    \* scrub_pmc: the position of the outer loop
  fileIdx,      \* scrub_pmc: the position of the inner loop
  nScrubbed,    \* scrub_pmc: the counter of scrubbed articles
  nFailed,      \* scrub_pmc: the counter of failed articles
  calls,        \* scrub_pmc: the calls of __call__ made, with their outcome
  escaped,      \* scrub_pmc: the exception that left it, "None" when none
  pc            \* scrub_pmc: "idle", "loop" or "done"

batchVars ==
  <<corpus, folderIdx, fileIdx, nScrubbed, nFailed, calls, escaped, pc>>

textVars == <<argText, argStops, op, ret, prev, doc2>>

vars == <<textVars, disk, batchVars>>

\* ------------------------------------------------------------------------
\* Characters.
LowerLetters ==
  <<"a","b","c","d","e","f","g","h","i","j","k","l","m",
    "n","o","p","q","r","s","t","u","v","w","x","y","z">>

UpperLetters ==
  <<"A","B","C","D","E","F","G","H","I","J","K","L","M",
    "N","O","P","Q","R","S","T","U","V","W","X","Y","Z">>

Range(s) == {s[i] : i \in 1..Len(s)}

IsLower(c) == c \in Range(LowerLetters)

IsUpper(c) == c \in Range(UpperLetters)

\* str.isalpha() of a one-character string.
IsAlpha(c) == IsLower(c) \/ IsUpper(c)

\* \d of the re module.
IsDigit(c) == c \in {"0","1","2","3","4","5","6","7","8","9"}

\* \s of the re module.
IsSpace(c) == c \in {" ", "\n", "\t", "\r", "\f"}

LowerChar(c) ==
  IF IsUpper(c)
    THEN LowerLetters[CHOOSE i \in 1..Len(UpperLetters) : UpperLetters[i] = c]
    ELSE c

\* str.lower()
Lower(text) == [i \in 1..Len(text) |-> LowerChar(text[i])]

\* ------------------------------------------------------------------------
\* Generic helpers.
MaxOf(S) == CHOOSE x \in S : \A y \in S : y <= x

MinOf(S) == CHOOSE x \in S : \A y \in S : x <= y

\* text[from:] with a 0-based, already clamped index.
SliceFrom(text, from) == SubSeq(text, from + 1, Len(text))

\* text[:to]; a negative 'to' counts from the end, as Python slices do.
SliceTo(text, to) ==
  IF to >= 0
    THEN SubSeq(text, 1, IF to < Len(text) THEN to ELSE Len(text))
    ELSE SubSeq(text, 1, IF Len(text) + to > 0 THEN Len(text) + to ELSE 0)

\* 'sub' occurs in 'text' at the 0-based position i.
StartsAt(text, sub, i) ==
  i + Len(sub) <= Len(text) /\ SubSeq(text, i + 1, i + Len(sub)) = sub

RECURSIVE FindFrom(_, _, _)
\* The lowest position >= i at which 'sub' occurs, -1 when there is none.
FindFrom(text, sub, i) ==
  IF i + Len(sub) > Len(text)
    THEN -1
    ELSE IF StartsAt(text, sub, i) THEN i ELSE FindFrom(text, sub, i + 1)

RECURSIVE RFindFrom(_, _, _)
\* The highest position <= i at which 'sub' occurs, -1 when there is none.
RFindFrom(text, sub, i) ==
  IF i < 0
    THEN -1
    ELSE IF StartsAt(text, sub, i) THEN i ELSE RFindFrom(text, sub, i - 1)

\* str.find: the lowest position, -1 when absent.
Find(text, sub) == FindFrom(text, sub, 0)

\* str.rfind: the highest position, -1 when absent.
RFind(text, sub) == RFindFrom(text, sub, Len(text) - Len(sub))

RECURSIVE Flatten(_)
\* The concatenation of a sequence of strings.
Flatten(ss) == IF ss = <<>> THEN <<>> ELSE Head(ss) \o Flatten(Tail(ss))

SeqsUpTo(S, n) == UNION {[1..k -> S] : k \in 0..n}

\* ------------------------------------------------------------------------
\* __init__: the configuration.
separator == <<"=","=","=","=">>

cited == <<"c","i","t","e","d">>

license == <<"l","i","c","e","n","s","e">>

credited == <<"c","r","e","d","i","t","e","d">>

lawful_purpose == <<"l","a","w","f","u","l"," ","p","u","r","p","o","s","e">>

acknowledgements ==
  <<"a","c","k","n","o","w","l","e","d","g","e","m","e","n","t","s">>

supporting_information ==
  <<"s","u","p","p","o","r","t","i","n","g"," ",
    "i","n","f","o","r","m","a","t","i","o","n">>

stopstrings_front == <<cited, license, credited, lawful_purpose>>

stopstrings_body == <<acknowledgements, supporting_information>>

\* ------------------------------------------------------------------------
\* cut_head.

\* HeadCandidates with find in place of rfind: the first occurrence.
HeadCandidatesFirst(text, stopstrings) ==
  LET lowered == Lower(text)
  IN [k \in 1..Len(stopstrings) |->
        LET found == Find(lowered, stopstrings[k])
        IN found + Len(stopstrings[k]) * (IF found # -1 THEN 1 ELSE 0)]

\* The list comprehension of cut_head: one candidate index per stopstring.
HeadCandidates(text, stopstrings) ==
  LET lowered == Lower(text)
  IN [k \in 1..Len(stopstrings) |->
        LET found == RFind(lowered, stopstrings[k])
        IN found + Len(stopstrings[k]) * (IF found # -1 THEN 1 ELSE 0)]

\* start_idx as line 57 leaves it (max() of an empty list raises).
StartIdx(text, stopstrings) == MaxOf(Range(HeadCandidates(text, stopstrings)))

\* text[i] raises IndexError (i is never negative here).
IndexRaises(text, i) == i >= Len(text)

\* The boundary cleanup of lines 60-65 applied to start_idx = s.
Cleanup(text, s) ==
  IF s > 0
    THEN IF IndexRaises(text, s + 1)
           THEN [exc |-> "IndexError", val |-> s]
           ELSE IF ~IsAlpha(text[s + 2])
                  THEN IF ~(Len(text) >= s + 2)
                         THEN IF IndexRaises(text, s + 2)
                                THEN [exc |-> "IndexError", val |-> s]
                                ELSE IF IsAlpha(text[s + 3])
                                       THEN [exc |-> "None", val |-> s + 2]
                                       ELSE [exc |-> "None", val |-> s + 1]
                         ELSE [exc |-> "None", val |-> s + 1]
                  ELSE [exc |-> "None", val |-> s]
    ELSE [exc |-> "None", val |-> s]

\* The index of the final slice, line 66.
ClampIdx(text, s) ==
  IF (IF s > 0 THEN s ELSE 0) < Len(text) THEN (IF s > 0 THEN s ELSE 0)
                                         ELSE Len(text)

\* Besides the outcome, the record keeps idx, start_idx as line 57
\* computed it, and cut, the index line 66 slices at.
cut_head(text, stopstrings) ==
  IF stopstrings = <<>>
    THEN [exc |-> "ValueError", val |-> <<>>, idx |-> 0, cut |-> 0]
    ELSE LET c == Cleanup(text, StartIdx(text, stopstrings))
         IN IF c.exc # "None"
              THEN [exc |-> c.exc, val |-> <<>>,
                    idx |-> StartIdx(text, stopstrings), cut |-> 0]
              ELSE [exc |-> "None",
                    val |-> SliceFrom(text, ClampIdx(text, c.val)),
                    idx |-> StartIdx(text, stopstrings),
                    cut |-> ClampIdx(text, c.val)]

\* ------------------------------------------------------------------------
\* cut_tail.

\* TailCandidates without the term that lifts an absent marker's -1 to
\* len(text).
TailCandidatesNoLift(text, stopstrings) ==
  LET lowered == Lower(text)
  IN [k \in 1..Len(stopstrings) |-> Find(lowered, stopstrings[k])]

\* The list comprehension of cut_tail.
TailCandidates(text, stopstrings) ==
  LET lowered == Lower(text)
  IN [k \in 1..Len(stopstrings) |->
        LET found == Find(lowered, stopstrings[k])
        IN found + (Len(text) + 1) * (IF found = -1 THEN 1 ELSE 0)]

EndIdx(text, stopstrings) == MinOf(Range(TailCandidates(text, stopstrings)))

\* Besides the outcome, the record keeps idx = cut = end_idx as line 80
\* computed it.
cut_tail(text, stopstrings) ==
  IF stopstrings = <<>>
    THEN [exc |-> "ValueError", val |-> <<>>, idx |-> 0, cut |-> 0]
    ELSE [exc |-> "None",
          val |-> SliceTo(text, EndIdx(text, stopstrings)),
          idx |-> EndIdx(text, stopstrings),
          cut |-> EndIdx(text, stopstrings)]

\* ------------------------------------------------------------------------
\* remove_citing: re.sub(r'\[\d+\]|\(\d+\)', ' ', text).

\* The number of consecutive digits from 1-based position p on.
DigitRun(text, p) ==
  MaxOf({d \in 0..Len(text) :
           \A k \in p..(p + d - 1) : k <= Len(text) /\ IsDigit(text[k])})

\* CitingMatch with the closing character not tied to the opening one.
CitingMatchAnyClose(text, p) ==
  LET d == DigitRun(text, p + 1)
      q == p + 1 + d
  IN IF /\ text[p] \in {"[", "("}
        /\ d >= 1
        /\ q <= Len(text)
        /\ text[q] \in {"]", ")"}
       THEN d + 2
       ELSE 0

\* The length of the match of \[\d+\]|\(\d+\) that starts at 1-based
\* position p, 0 when none does.
CitingMatch(text, p) ==
  LET d == DigitRun(text, p + 1)
      q == p + 1 + d
  IN IF /\ text[p] \in {"[", "("}
        /\ d >= 1
        /\ q <= Len(text)
        /\ text[q] = (IF text[p] = "[" THEN "]" ELSE ")")
       THEN d + 2
       ELSE 0

RECURSIVE SubCiting(_, _)
\* re.sub from 1-based position p on: leftmost matches, left to right.
SubCiting(text, p) ==
  IF p > Len(text)
    THEN <<>>
    ELSE IF CitingMatch(text, p) > 0
           THEN <<" ">> \o SubCiting(text, p + CitingMatch(text, p))
           ELSE <<text[p]>> \o SubCiting(text, p + 1)

remove_citing(text) == SubCiting(text, 1)

\* ------------------------------------------------------------------------
\* remove_refs: re.sub(r'\(.*[,]\s*\d{4}.*\)', ' ', text).

\* '.' matches every position of a..b: none holds a newline.
DotRun(text, a, b) == \A k \in a..b : text[k] # "\n"

\* The number of consecutive \s characters from 1-based position p on.
SpaceRun(text, p) ==
  MaxOf({w \in 0..Len(text) :
           \A k \in p..(p + w - 1) : k <= Len(text) /\ IsSpace(text[k])})

\* The 1-based positions of a closing ')' that end a match which starts at
\* p and takes the ',' at j: after the comma all the white space, then four
\* digits, then characters of one line.
RefEnds(text, p, j) ==
  LET f == j + SpaceRun(text, j + 1) + 1
  IN {e \in (f + 4)..Len(text) :
        /\ \A k \in f..(f + 3) : IsDigit(text[k])
        /\ DotRun(text, f + 4, e - 1)
        /\ text[e] = ")"}

\* The commas a match starting at p can take.
RefCommas(text, p) ==
  {j \in (p + 1)..Len(text) :
     /\ text[j] = ","
     /\ DotRun(text, p + 1, j - 1)
     /\ RefEnds(text, p, j) # {}}

\* The length of the match that starts at 1-based position p, 0 when none
\* does: the first '.*' is greedy and takes the last comma that works, the
\* second '.*' is greedy and takes the last ')' that works.
RefMatch(text, p) ==
  IF text[p] = "(" /\ RefCommas(text, p) # {}
    THEN MaxOf(RefEnds(text, p, MaxOf(RefCommas(text, p)))) - p + 1
    ELSE 0

RECURSIVE SubRefs(_, _)
SubRefs(text, p) ==
  IF p > Len(text)
    THEN <<>>
    ELSE IF RefMatch(text, p) > 0
           THEN <<" ">> \o SubRefs(text, p + RefMatch(text, p))
           ELSE <<text[p]>> \o SubRefs(text, p + 1)

remove_refs(text) == SubRefs(text, 1)

\* ------------------------------------------------------------------------
\* normalize.

\* The character class [a-zA-Z0-9!?,.\-\n].
IsAllowed(c) == IsAlpha(c) \/ IsDigit(c) \/ c \in {"!", "?", ",", ".", "-", "\n"}

\* re.sub('[^a-zA-Z0-9!?,.\-\n]', ' ', text)
ReplaceSymbols(text) ==
  [k \in 1..Len(text) |-> IF IsAllowed(text[k]) THEN text[k] ELSE " "]

IsTerminator(c) == c \in {"!", "?", "."}

RECURSIVE TerminatorsFrom(_, _)
\* Of a run of terminators only its first position yields a character.
TerminatorsFrom(text, p) ==
  IF p > Len(text)
    THEN <<>>
    ELSE IF ~IsTerminator(text[p])
           THEN <<text[p]>> \o TerminatorsFrom(text, p + 1)
           ELSE IF p > 1 /\ IsTerminator(text[p - 1])
                  THEN TerminatorsFrom(text, p + 1)
                  ELSE <<".">> \o TerminatorsFrom(text, p + 1)

\* re.sub('[!?.]+', '.', text)
CollapseTerminators(text) == TerminatorsFrom(text, 1)

RECURSIVE SpacesFrom(_, _)
\* A run of two spaces or more yields one space, at its first position.
SpacesFrom(text, p) ==
  IF p > Len(text)
    THEN <<>>
    ELSE IF text[p] = " " /\ p > 1 /\ text[p - 1] = " "
           THEN SpacesFrom(text, p + 1)
           ELSE <<text[p]>> \o SpacesFrom(text, p + 1)

\* re.sub(' {2,}', ' ', text)
CollapseSpaces(text) == SpacesFrom(text, 1)

\* normalize with the spaces collapsed before the symbols are replaced.
normalizeSpacesFirst(text) ==
  CollapseTerminators(
    ReplaceSymbols(
      CollapseSpaces(
        remove_refs(
          remove_citing(text)))))

normalize(text) ==
  CollapseSpaces(
    CollapseTerminators(
      ReplaceSymbols(
        remove_refs(
          remove_citing(text)))))

\* ------------------------------------------------------------------------
\* preprocess.

Raised(e) == [exc |-> e, val |-> <<>>, idx |-> 0, cut |-> 0]

Returned(v) == [exc |-> "None", val |-> v, idx |-> 0, cut |-> 0]

\* preprocess with the body left uncut.
preprocessBodyUncut(text, mode) ==
  IF mode \notin {"front", "body"}
    THEN Raised("AssertionError")
    ELSE LET processed_text ==
               IF mode = "front" THEN cut_head(text, stopstrings_front)
                                 ELSE Returned(text)
         IN IF processed_text.exc # "None"
              THEN Raised(processed_text.exc)
              ELSE Returned(normalize(processed_text.val))

preprocess(text, mode) ==
  IF mode \notin {"front", "body"}
    THEN Raised("AssertionError")
    ELSE LET processed_text ==
               IF mode = "front" THEN cut_head(text, stopstrings_front)
                                 ELSE cut_tail(text, stopstrings_body)
         IN IF processed_text.exc # "None"
              THEN Raised(processed_text.exc)
              ELSE Returned(normalize(processed_text.val))

\* ------------------------------------------------------------------------
\* __call__: the scrub of one file.

RECURSIVE Split(_, _)
\* str.split(sep): the pieces between the occurrences of sep, taken left
\* to right without overlap.
Split(text, sep) ==
  LET found == Find(text, sep)
  IN IF found = -1
       THEN <<text>>
       ELSE <<SubSeq(text, 1, found)>>
              \o Split(SliceFrom(text, found + Len(sep)), sep)

\* FrontBody with the slice [1:] in place of [1:3] and the rest joined
\* into the body: what follows section 2 is kept.
FrontBodyKeepRest(text) ==
  LET sections == Split(text, separator)
  IN IF Len(sections) >= 3
       THEN [front |-> sections[2],
             body |-> SliceFrom(text, Len(sections[1]) + Len(sections[2])
                                        + 2 * Len(separator))]
       ELSE [front |-> <<>>, body |-> text]

\* FrontBody with the slice [0:2] in place of [1:3].
FrontBodyOffByOne(text) ==
  LET sections == Split(text, separator)
  IN IF Len(sections) >= 2
       THEN [front |-> sections[1], body |-> sections[2]]
       ELSE [front |-> <<>>, body |-> text]

\* front, body = text.split(self._separator)[1:3], with the fallback of the
\* except branch when the slice does not hold two sections.
FrontBody(text) ==
  LET sections == Split(text, separator)
  IN IF Len(sections) >= 3
       THEN [front |-> sections[2], body |-> sections[3]]
       ELSE [front |-> <<>>, body |-> text]

\* What __call__ would write: the two preprocessed parts joined by '\n',
\* or the exception preprocess raised.
Scrubbed(text) ==
  LET preprocessed_front == preprocess(FrontBody(text).front, "front")
      preprocessed_body == preprocess(FrontBody(text).body, "body")
  IN IF preprocessed_front.exc # "None"
       THEN Raised(preprocessed_front.exc)
       ELSE IF preprocessed_body.exc # "None"
              THEN Raised(preprocessed_body.exc)
              ELSE Returned(preprocessed_front.val \o <<"\n">>
                              \o preprocessed_body.val)

\* The content of a path that holds no file.
Absent == <<"<absent>">>

\* __call__ with the output file opened for writing before the text is
\* preprocessed: a failure of preprocess leaves it empty.
callOpenFirst(fs, filename, text, readable) ==
  IF ~fs.dirExists /\ ~fs.mkdirAllowed
    THEN [exc |-> "OSError", val |-> <<>>, fs |-> fs]
    ELSE LET made == [fs EXCEPT !.dirExists = TRUE]
         IN IF ~readable
              THEN [exc |-> "OSError", val |-> <<>>, fs |-> made]
              ELSE LET preprocessed_text == Scrubbed(text)
                   IN IF preprocessed_text.exc # "None"
                        THEN [exc |-> preprocessed_text.exc, val |-> <<>>,
                              fs |-> [made EXCEPT !.files[filename] = <<>>]]
                        ELSE [exc |-> "None", val |-> preprocessed_text.val,
                              fs |-> [made EXCEPT !.files[filename] =
                                                    preprocessed_text.val]]

\* The file system as __call__ sees it is a record:
\*   dirExists     the output directory exists
\*   mkdirAllowed  os.mkdir of the output directory succeeds
\*   files         the content of each file of the output directory
\* __call__ on a file named 'filename' whose content is 'text' and whose
\* open() succeeds iff 'readable'.  The result holds the exception that
\* escapes (or "None"), the text written and the file system afterwards.
call(fs, filename, text, readable) ==
  IF ~fs.dirExists /\ ~fs.mkdirAllowed
    THEN [exc |-> "OSError", val |-> <<>>, fs |-> fs]
    ELSE LET made == [fs EXCEPT !.dirExists = TRUE]
         IN IF ~readable
              THEN [exc |-> "OSError", val |-> <<>>, fs |-> made]
              ELSE LET preprocessed_text == Scrubbed(text)
                   IN IF preprocessed_text.exc # "None"
                        THEN [exc |-> preprocessed_text.exc, val |-> <<>>,
                              fs |-> made]
                        ELSE [exc |-> "None", val |-> preprocessed_text.val,
                              fs |-> [made EXCEPT !.files[filename] =
                                                    preprocessed_text.val]]

\* ------------------------------------------------------------------------
\* The boundary cuts as a state machine: a caller picks a text and a
\* stopstring list, then applies cut_head or cut_tail to them.

\* The characters of the texts: two letters, an upper-case one, a
\* punctuation character.
CutChars == {"a", "b", "B", "."}

\* The markers a stopstring list is drawn from: lower-case, as the
\* configured ones are.
CutMarkers == << <<"a">>, <<"a","b">>, <<"b",".">>, <<"b","b">> >>

\* The members of an index set, in increasing order.
Ascending(S) ==
  CHOOSE f \in [1..Cardinality(S) -> S] :
    \A i, j \in 1..Cardinality(S) : i < j => f[i] < f[j]

\* The non-empty stopstring lists of at most MaxStops markers.
CutStopLists ==
  { [k \in 1..Cardinality(S) |-> CutMarkers[Ascending(S)[k]]] :
      S \in {X \in SUBSET (1..Len(CutMarkers)) :
               X # {} /\ Cardinality(X) <= MaxStops} }

NoResult == [exc |-> "None", val |-> <<>>, idx |-> 0, cut |-> 0]

\* The file system of the runs that touch no file.
NoFs == [dirExists |-> FALSE, mkdirAllowed |-> FALSE, files |-> <<>>]

\* scrub_pmc is not running.
BatchIdle ==
  /\ corpus = <<>>
  /\ folderIdx = 0
  /\ fileIdx = 0
  /\ nScrubbed = 0
  /\ nFailed = 0
  /\ calls = <<>>
  /\ escaped = "None"
  /\ pc = "idle"

InitCut ==
  /\ argText \in SeqsUpTo(CutChars, MaxCutLen)
  /\ argStops \in CutStopLists
  /\ op = "none"
  /\ ret = NoResult
  /\ prev = NoResult
  /\ doc2 = <<>>
  /\ disk = NoFs
  /\ BatchIdle

CallCutHead ==
  /\ op = "none"
  /\ op' = "cut_head"
  /\ ret' = cut_head(argText, argStops)
  /\ UNCHANGED <<argText, argStops, prev, doc2, disk, batchVars>>

CallCutTail ==
  /\ op = "none"
  /\ op' = "cut_tail"
  /\ ret' = cut_tail(argText, argStops)
  /\ UNCHANGED <<argText, argStops, prev, doc2, disk, batchVars>>

NextCut == CallCutHead \/ CallCutTail

SpecCut == InitCut /\ [][NextCut]_vars

\* ------------------------------------------------------------------------
\* The pattern strippers and normalize as a state machine: a caller picks a
\* text, then applies remove_citing, remove_refs or normalize to it, and
\* may hand the result of normalize to normalize once more.

\* The pieces the texts are put together from.
NormTokens ==
  { <<"(">>, <<")">>, <<"[">>, <<"]">>, <<",">>, <<"2","0","2","1">>,
    <<" ">>, <<".">>, <<"!">>, <<"a">>, <<"\n">> }

NormTexts == {Flatten(ts) : ts \in SeqsUpTo(NormTokens, MaxNormTokens)}

InitNorm ==
  /\ argText \in NormTexts
  /\ argStops = <<>>
  /\ op = "none"
  /\ ret = NoResult
  /\ prev = NoResult
  /\ doc2 = <<>>
  /\ disk = NoFs
  /\ BatchIdle

CallRemoveCiting ==
  /\ op = "none"
  /\ op' = "remove_citing"
  /\ ret' = Returned(remove_citing(argText))
  /\ UNCHANGED <<argText, argStops, prev, doc2, disk, batchVars>>

CallRemoveRefs ==
  /\ op = "none"
  /\ op' = "remove_refs"
  /\ ret' = Returned(remove_refs(argText))
  /\ UNCHANGED <<argText, argStops, prev, doc2, disk, batchVars>>

CallNormalize ==
  /\ op = "none"
  /\ op' = "normalize"
  /\ ret' = Returned(normalize(argText))
  /\ UNCHANGED <<argText, argStops, prev, doc2, disk, batchVars>>

\* normalize applied to what normalize returned.
CallNormalizeAgain ==
  /\ op = "normalize"
  /\ op' = "normalize_again"
  /\ prev' = ret
  /\ ret' = Returned(normalize(ret.val))
  /\ UNCHANGED <<argText, argStops, doc2, disk, batchVars>>

NextNorm ==
  CallRemoveCiting \/ CallRemoveRefs \/ CallNormalize \/ CallNormalizeAgain

SpecNorm == InitNorm /\ [][NextNorm]_vars

\* ------------------------------------------------------------------------
\* The scrub of one file as a state machine: __call__ runs on a source
\* file, the file is rewritten, and __call__ runs on it again, with the
\* same output directory.

\* The document of the end-to-end example.
ExampleDoc ==
  <<
    "=","=","=","="," ","f","r","o","n","t","\n","C","o",
    "p","y","r","i","g","h","t"," ","2","0","2","0",",",
    " ","l","i","c","e","n","s","e","d"," ","a","n","d",
    " ","c","r","e","d","i","t","e","d",".","\n","T","i",
    "t","l","e"," ","H","e","r","e",".","\n","=","=","=",
    "="," ","b","o","d","y","\n","R","e","s","u","l","t",
    "s"," ","[","1","]"," ","s","h","o","w"," ","g","r",
    "o","w","t","h"," ","(","D","o","e",","," ","2","0",
    "2","1",")","."," ","A","c","k","n","o","w","l","e",
    "d","g","e","m","e","n","t","s",":"," ","n","o","n",
    "e",".","\n","=","=","=","="," ","r","e","f","s","\n",
    "D","o","e"," ","2","0","2","1","." >>

\* The pieces the documents are put together from.
DocTokens == {separator, credited, acknowledgements, <<"a", "!">>}

DocTexts == {Flatten(ts) : ts \in SeqsUpTo(DocTokens, MaxDocTokens)}

\* What the rewrite puts before the first separator and after the third
\* section.
DocHeads == {<<>>, <<"a", "!">>, acknowledgements, <<"=">>}

DocTrailers ==
  {<<>>, separator, separator \o <<"a", "!">>, separator \o credited}

\* An article that scrubs, another one that scrubs to other content (it has
\* no sections), and one whose front part ends one character after a front
\* stopstring.
GoodDoc == separator \o <<"a", "!">> \o separator \o <<"a", "!">>

PlainDoc == <<"A", ".">>

BadDoc == separator \o credited \o <<".">> \o separator \o <<"a", "!">>

\* The rewrites of a document: itself, the article that does not scrub,
\* and when it has three sections or more, its sections 1 and 2 behind
\* another head and before another trailer.
Rewrites(text) ==
  LET sections == Split(text, separator)
  IN IF Len(sections) < 3
       THEN {text, BadDoc}
       ELSE {text, BadDoc} \cup
            {h \o separator \o sections[2] \o separator \o sections[3] \o t :
               h \in DocHeads, t \in DocTrailers}

\* The name of the source file, and so of the output file.
DocName == "f1"

InitDoc ==
  /\ argText \in DocTexts \cup {ExampleDoc}
  /\ doc2 \in Rewrites(argText)
  /\ argStops = <<>>
  /\ op = "none"
  /\ ret = NoResult
  /\ prev = NoResult
  /\ \E d \in BOOLEAN :
       disk = [dirExists |-> d, mkdirAllowed |-> TRUE,
             files |-> [n \in {DocName} |-> Absent]]
  /\ BatchIdle

\* The outcome of __call__ as the caller sees it.
Outcome(r) == IF r.exc = "None" THEN Returned(r.val) ELSE Raised(r.exc)

\* scrubber(path, output_dir) on the source file.
CallScrub ==
  /\ op = "none"
  /\ \E readable \in BOOLEAN :
       LET r == call(disk, DocName, argText, readable)
       IN ret' = Outcome(r) /\ disk' = r.fs
  /\ op' = "scrub"
  /\ UNCHANGED <<argText, argStops, prev, doc2, batchVars>>

\* scrubber(path, output_dir) on the rewritten source file.
CallScrubAgain ==
  /\ op = "scrub"
  /\ \E readable \in BOOLEAN :
       LET r == call(disk, DocName, doc2, readable)
       IN ret' = Outcome(r) /\ disk' = r.fs
  /\ prev' = ret
  /\ op' = "scrub_again"
  /\ UNCHANGED <<argText, argStops, doc2, batchVars>>

NextDoc == CallScrub \/ CallScrubAgain

SpecDoc == InitDoc /\ [][NextDoc]_vars

\* ------------------------------------------------------------------------
\* scrub_pmc: the batch run over a corpus, one loop step per action.

\* The subfolders of the corpus and the file names in them, in the order
\* os.listdir gives them.
BatchFolders == <<"s1", "s2">>

BatchNames == <<"f1", "f2">>

\* What an entry of a subfolder can be: a directory, a file that cannot be
\* read, or a file with one of the three articles.
EntryKinds == {"dir", "unreadable", "good", "plain", "bad"}

TextOf(kind) ==
  IF kind = "good" THEN GoodDoc
  ELSE IF kind = "plain" THEN PlainDoc
  ELSE IF kind = "bad" THEN BadDoc
  ELSE <<>>

\* An entry is listed unless its kind is "none".
Listed(e) == e.kind # "none"

\* The listings of a subfolder: each name is missing or of some kind.
FolderListings ==
  { SelectSeq([k \in 1..Len(BatchNames) |->
                 [name |-> BatchNames[k], kind |-> kinds[k]]], Listed) :
      kinds \in [1..Len(BatchNames) -> EntryKinds \cup {"none"}] }

RECURSIVE CountEntries(_, _)
\* The number of entries in the first n subfolders.
CountEntries(c, n) ==
  IF n = 0 THEN 0 ELSE Len(c[n]) + CountEntries(c, n - 1)

Corpora ==
  {c \in [1..Len(BatchFolders) -> FolderListings] :
     CountEntries(c, Len(BatchFolders)) <= MaxEntries}

Init ==
  /\ corpus \in Corpora
  /\ folderIdx = 1
  /\ fileIdx = 1
  /\ nScrubbed = 0
  /\ nFailed = 0
  /\ calls = <<>>
  /\ escaped = "None"
  /\ pc = "loop"
  /\ \E d, m \in BOOLEAN :
       /\ d => m
       /\ disk = [dirExists |-> d, mkdirAllowed |-> m,
                  files |-> [n \in Range(BatchNames) |-> Absent]]
  /\ argText = <<>>
  /\ argStops = <<>>
  /\ op = "none"
  /\ ret = NoResult
  /\ prev = NoResult
  /\ doc2 = <<>>

\* IsException for a handler that catches what preprocessing raises only.
IsExceptionNoOSError(e) ==
  e \in {"IndexError", "ValueError", "AssertionError"}

\* The classes 'except Exception' catches.
IsException(e) ==
  e \in {"OSError", "IndexError", "ValueError", "AssertionError"}

\* The loops stand at an entry.
AtEntry ==
  /\ pc = "loop"
  /\ folderIdx <= Len(corpus)
  /\ fileIdx <= Len(corpus[folderIdx])

\* IsFile for a loop that takes every entry for a file.
IsFileAlways(entry) == entry.kind # "none"

\* os.path.isfile(path)
IsFile(entry) == entry.kind # "dir"

\* One pass of the inner loop over a regular file: the try block around
\* __call__ and the two counters.
ScrubFile ==
  /\ AtEntry
  /\ IsFile(corpus[folderIdx][fileIdx])
  /\ LET entry == corpus[folderIdx][fileIdx]
         r == call(disk, entry.name, TextOf(entry.kind),
                   entry.kind # "unreadable")
     IN /\ disk' = r.fs
        /\ calls' = Append(calls, [folder |-> folderIdx, file |-> fileIdx,
                                   exc |-> r.exc])
        /\ IF r.exc = "None"
             THEN /\ nScrubbed' = nScrubbed + 1
                  /\ UNCHANGED <<nFailed, escaped, pc>>
             ELSE IF IsException(r.exc)
                    THEN /\ nFailed' = nFailed + 1
                         /\ UNCHANGED <<nScrubbed, escaped, pc>>
                    ELSE /\ escaped' = r.exc
                         /\ pc' = "done"
                         /\ UNCHANGED <<nScrubbed, nFailed>>
  /\ fileIdx' = fileIdx + 1
  /\ UNCHANGED <<corpus, folderIdx, textVars>>

\* One pass of the inner loop over an entry that is no regular file.
SkipEntry ==
  /\ AtEntry
  /\ ~IsFile(corpus[folderIdx][fileIdx])
  /\ fileIdx' = fileIdx + 1
  /\ UNCHANGED <<corpus, folderIdx, nScrubbed, nFailed, calls, escaped, pc,
                 disk, textVars>>

\* The inner loop is through: the outer loop takes the next subfolder.
NextFolder ==
  /\ pc = "loop"
  /\ folderIdx <= Len(corpus)
  /\ fileIdx > Len(corpus[folderIdx])
  /\ folderIdx' = folderIdx + 1
  /\ fileIdx' = 1
  /\ UNCHANGED <<corpus, nScrubbed, nFailed, calls, escaped, pc,
                 disk, textVars>>

\* The outer loop is through: the summary is printed and scrub_pmc returns.
Finish ==
  /\ pc = "loop"
  /\ folderIdx > Len(corpus)
  /\ pc' = "done"
  /\ UNCHANGED <<corpus, folderIdx, fileIdx, nScrubbed, nFailed, calls,
                 escaped, disk, textVars>>

Next == ScrubFile \/ SkipEntry \/ NextFolder \/ Finish

Spec == Init /\ [][Next]_vars

\* ------------------------------------------------------------------------
\* Properties of the boundary cuts.

\* 'marker' occurs in 'text' at 0-based position i, letter case ignored.
OccursAt(text, marker, i) ==
  /\ i \in 0..(Len(text) - Len(marker))
  /\ \A k \in 1..Len(marker) : LowerChar(text[i + k]) = LowerChar(marker[k])

OccurringMarkers(text, stopstrings) ==
  {k \in 1..Len(stopstrings) :
     \E i \in 0..Len(text) : OccursAt(text, stopstrings[k], i)}

\* The end of the last occurrence of the k-th marker.
LastEnd(text, stopstrings, k) ==
  Len(stopstrings[k])
    + MaxOf({i \in 0..Len(text) : OccursAt(text, stopstrings[k], i)})

\* The start of the first occurrence of the k-th marker.
FirstStart(text, stopstrings, k) ==
  MinOf({i \in 0..Len(text) : OccursAt(text, stopstrings[k], i)})

\* The furthest marker end, the E of the front cut.
FurthestEnd(text, stopstrings) ==
  MaxOf({LastEnd(text, stopstrings, k) :
           k \in OccurringMarkers(text, stopstrings)})

\* The earliest marker start, the m of the back cut.
EarliestStart(text, stopstrings) ==
  MinOf({FirstStart(text, stopstrings, k) :
           k \in OccurringMarkers(text, stopstrings)})

\* 'sub' is a contiguous part of 'text'.
IsSubstring(sub, text) ==
  \E i \in 0..Len(text) :
    i + Len(sub) <= Len(text) /\ SubSeq(text, i + 1, i + Len(sub)) = sub

\* C2: cut_head never indexes past the end of the string: for every text
\* and stopstring list it returns a substring of the text without raising,
\* also when the furthest marker occurrence ends at len(text), len(text)-1
\* or len(text)-2.
C2_CutHeadNeverRaises ==
  op = "cut_head" => ret.exc = "None" /\ IsSubstring(ret.val, argText)

C8_NormalizeIdempotent ==
  op = "normalize_again" => ret.val = prev.val

\* normalize ran twice, and its first run removed a citation or a
\* reference, replaced a symbol and collapsed a run.
C8_Witness ==
  /\ op = "normalize_again"
  /\ prev.val = normalize(argText)
  /\ Len(prev.val) < Len(argText)
  /\ \E k \in 1..Len(argText) : ~IsAllowed(argText[k]) /\ argText[k] # " "
  /\ prev.val # <<" ">>

\* The text holds a '[' digits ']' or a '(' digits ')'.
HasCitingPattern(text) ==
  \E p \in 1..Len(text) : \E q \in (p + 2)..Len(text) :
    /\ <<text[p], text[q]>> \in {<<"[", "]">>, <<"(", ")">>}
    /\ \A k \in (p + 1)..(q - 1) : IsDigit(text[k])

\* The text holds a parenthetical reference: a '(', later on its line a
\* ',', then white space or none, four digits, and later on their line a
\* ')'.
HasRefPattern(text) ==
  \E p \in 1..Len(text) : \E j \in (p + 1)..Len(text) :
    \E f \in (j + 1)..Len(text) : \E e \in (f + 4)..Len(text) :
      /\ text[p] = "(" /\ text[j] = "," /\ text[e] = ")"
      /\ \A k \in (p + 1)..(j - 1) : text[k] # "\n"
      /\ \A k \in (j + 1)..(f - 1) : IsSpace(text[k])
      /\ \A k \in f..(f + 3) : IsDigit(text[k])
      /\ \A k \in (f + 4)..(e - 1) : text[k] # "\n"

\* C9 as stated: on a text with no digit-bracket and no digit-paren
\* pattern both remove_citing and remove_refs return the text unchanged.
C9_BothIdentityWithoutCiting ==
  (op \in {"remove_citing", "remove_refs"} /\ ~HasCitingPattern(argText))
    => ret.val = argText

\* C9 amended: on a text with no digit-bracket and no digit-paren pattern
\* remove_citing returns the text unchanged, and remove_refs returns it
\* unchanged provided it holds no parenthetical reference either (a '(',
\* later on its line a ',', white space or none, four digits, and later on
\* their line a ')').
C9_IdentityWithoutPatterns ==
  /\ (op = "remove_citing" /\ ~HasCitingPattern(argText))
       => ret.val = argText
  /\ (op = "remove_refs" /\ ~HasCitingPattern(argText)
        /\ ~HasRefPattern(argText))
       => ret.val = argText

\* remove_refs ran on a text that holds parentheses, a comma and a year but
\* neither pattern, and returned it as it was.
C9_Witness ==
  /\ op = "remove_refs"
  /\ ~HasCitingPattern(argText)
  /\ ~HasRefPattern(argText)
  /\ {"(", ")", ",", "2"} \subseteq Range(argText)
  /\ ret.val = argText

\* ------------------------------------------------------------------------
\* Properties of the scrub of one file.

\* The content the example is said to produce.
ExampleClaimed ==
  <<
    "T","i","t","l","e"," ","H","e","r","e",".","\n","R",
    "e","s","u","l","t","s"," ","s","h","o","w"," ","g",
    "r","o","w","t","h","." >>

\* The content the example produces.
ExampleWritten ==
  <<
    "\n","T","i","t","l","e"," ","H","e","r","e",".","\n",
    "\n"," ","b","o","d","y","\n","R","e","s","u","l","t",
    "s"," ","s","h","o","w"," ","g","r","o","w","t","h",
    " ","."," " >>

\* C3 as stated: the scrub of the example document writes exactly
\* "Title Here.\nResults show growth.".
C3_ExampleAsStated ==
  (op = "scrub" /\ argText = ExampleDoc /\ ret.exc = "None")
    => disk.files[DocName] = ExampleClaimed

\* C3 amended: the scrub of the example document writes exactly
\* "\nTitle Here.\n\n body\nResults show growth . ": the front part keeps
\* the line break before and after "Title Here.", the body part keeps its
\* section label " body\n", the space before the final period and the
\* space after it.
C3_ExampleWritten ==
  (op = "scrub" /\ argText = ExampleDoc /\ ret.exc = "None")
    => disk.files[DocName] = ExampleWritten

\* __call__ ran on the example document and wrote its output file.
C3_Witness ==
  /\ op = "scrub"
  /\ argText = ExampleDoc
  /\ ret.exc = "None"
  /\ disk.files[DocName] = ret.val
  /\ disk.files[DocName] # Absent

\* The text up to the first body stopstring that occurs in it, the whole
\* text when none does.
BeforeBodyStop(text) ==
  IF OccurringMarkers(text, stopstrings_body) = {}
    THEN text
    ELSE SubSeq(text, 1, EarliestStart(text, stopstrings_body))

\* C4 as stated: when the split on the separator yields fewer than 3
\* sections no metadata stripping is attempted, and the file written is one
\* newline followed by normalize(entire original text).
C4_FallbackWholeText ==
  (op = "scrub" /\ ret.exc = "None" /\ Len(Split(argText, separator)) < 3)
    => disk.files[DocName] = <<"\n">> \o normalize(argText)

\* C4 amended: when the split on the separator yields fewer than 3
\* sections, front is the empty string and body the entire original text;
\* the back cut at the first body stopstring is still applied to that
\* body, so the scrub succeeds once the file is read and the file written
\* is one newline followed by normalize(the text up to the first
\* occurrence of a body stopstring, the whole text when none occurs).
C4_FallbackCutBody ==
  (op = "scrub" /\ ret.exc # "OSError" /\ Len(Split(argText, separator)) < 3)
    => /\ ret.exc = "None"
       /\ disk.files[DocName] = <<"\n">> \o normalize(BeforeBodyStop(argText))

\* __call__ ran on a document of two sections that holds a body stopstring
\* after some text, and wrote less than the normalized whole.
C4_Witness ==
  /\ op = "scrub"
  /\ ret.exc = "None"
  /\ Len(Split(argText, separator)) = 2
  /\ OccurringMarkers(argText, stopstrings_body) # {}
  /\ Len(BeforeBodyStop(argText)) > Len(separator)
  /\ disk.files[DocName] = <<"\n">> \o normalize(BeforeBodyStop(argText))
  /\ disk.files[DocName] # <<"\n">> \o normalize(argText)

\* C5: two documents that each split into at least 3 sections and agree
\* on sections 1 and 2 are scrubbed to the same output, whatever section 0
\* and the sections from index 3 on hold.
C5_OnlySectionsOneAndTwo ==
  ( /\ op = "scrub_again"
    /\ prev.exc # "OSError"
    /\ ret.exc # "OSError"
    /\ Len(Split(argText, separator)) >= 3
    /\ Len(Split(doc2, separator)) >= 3
    /\ Split(argText, separator)[2] = Split(doc2, separator)[2]
    /\ Split(argText, separator)[3] = Split(doc2, separator)[3] )
    => ret = prev

\* __call__ ran on two documents that agree on sections 1 and 2, differ in
\* section 0 and in what follows section 2, and wrote the same content.
C5_Witness ==
  /\ op = "scrub_again"
  /\ prev.exc = "None"
  /\ ret.exc = "None"
  /\ Len(Split(argText, separator)) >= 3
  /\ Len(Split(doc2, separator)) > Len(Split(argText, separator))
  /\ Split(argText, separator)[1] # Split(doc2, separator)[1]
  /\ Split(argText, separator)[2] = Split(doc2, separator)[2]
  /\ Split(argText, separator)[3] = Split(doc2, separator)[3]
  /\ Len(Split(argText, separator)[2]) > 0
  /\ Len(Split(argText, separator)[3]) > 0
  /\ disk.files[DocName] = prev.val
  /\ ret.val = prev.val

\* ------------------------------------------------------------------------
\* Properties of the batch run.

\* The regular files of the corpus, as <<subfolder, position>> pairs.
RegularFiles ==
  {<<f, e>> \in (1..Len(corpus)) \X (1..Len(BatchNames)) :
     e <= Len(corpus[f]) /\ corpus[f][e].kind # "dir"}

\* The calls of __call__ that completed, and those that raised.
Completed == {k \in 1..Len(calls) : calls[k].exc = "None"}

Failed == {k \in 1..Len(calls) : calls[k].exc # "None"}

\* C1: on a corpus laid out as corpus -> subfolders -> files scrub_pmc
\* calls the scrubber once on every regular file of every subfolder,
\* whatever failed before, and returns without raising; nScrubbed is then
\* the number of files whose scrub completed and nFailed the number whose
\* scrub raised, so they add up to the number of regular files.  A file
\* that cannot be read is among the failed ones.
C1_BatchIsolatesFailures ==
  pc = "done" =>
    /\ escaped = "None"
    /\ Len(calls) = Cardinality(RegularFiles)
    /\ {<<calls[k].folder, calls[k].file>> : k \in 1..Len(calls)}
         = RegularFiles
    /\ nScrubbed = Cardinality(Completed)
    /\ nFailed = Cardinality(Failed)
    /\ nScrubbed + nFailed = Cardinality(RegularFiles)
    /\ \A k \in 1..Len(calls) :
         corpus[calls[k].folder][calls[k].file].kind = "unreadable"
           => k \in Failed

\* scrub_pmc returned from a corpus of one unreadable file followed by two
\* valid files in another subfolder, with 2 scrubbed and 1 failed.
C1_Witness ==
  /\ pc = "done"
  /\ Len(corpus[1]) = 1
  /\ corpus[1][1].kind = "unreadable"
  /\ Len(corpus[2]) = 2
  /\ \A e \in 1..2 : corpus[2][e].kind \in {"good", "plain"}
  /\ nScrubbed = 2
  /\ nFailed = 1
  /\ escaped = "None"

\* C10 as stated: an error of os.mkdir on the output directory leaves
\* scrub_pmc uncaught and is not counted as a failure of a file.
C10_MkdirErrorPropagates ==
  ( /\ pc = "done"
    /\ ~disk.dirExists
    /\ ~disk.mkdirAllowed
    /\ calls # <<>>
    /\ \A k \in 1..Len(calls) :
         corpus[calls[k].folder][calls[k].file].kind \in {"good", "plain"} )
    => (escaped = "OSError" /\ nFailed = 0)

\* C10 amended: an error of os.mkdir on the output directory is raised
\* inside __call__, within the try block scrub_pmc puts around each file:
\* it is caught and counted as a failure of that file, for every regular
\* file of the corpus, nothing is written, and scrub_pmc returns without
\* raising.
C10_MkdirErrorCounted ==
  (pc = "done" /\ ~disk.dirExists /\ ~disk.mkdirAllowed)
    => /\ escaped = "None"
       /\ nScrubbed = 0
       /\ nFailed = Cardinality(RegularFiles)
       /\ \A k \in 1..Len(calls) : calls[k].exc = "OSError"
       /\ \A n \in Range(BatchNames) : disk.files[n] = Absent

\* scrub_pmc returned from a corpus with valid files in both subfolders
\* whose output directory could not be made: every file failed.
C10_Witness ==
  /\ pc = "done"
  /\ ~disk.dirExists
  /\ ~disk.mkdirAllowed
  /\ Len(corpus[1]) >= 1
  /\ Len(corpus[2]) >= 1
  /\ corpus[1][1].kind = "good"
  /\ corpus[2][1].kind = "plain"
  /\ nFailed >= 2
  /\ escaped = "None"

\* ------------------------------------------------------------------------
\* What a failed scrub leaves behind.

\* C11: the output file is written only after the read and all the
\* preprocessing of the file succeeded: a call of __call__ that fails while
\* reading or preprocessing leaves the content of the destination path as
\* it was before the call, absent or holding what it held.
C11_FailedScrubLeavesOutput ==
  [][(op' # op /\ ret'.exc # "None") => disk'.files = disk.files]_vars

\* __call__ wrote the output file, the source file was rewritten into an
\* article whose preprocessing raises, and the second __call__ left the
\* output file of the first one as it was.
C11_Witness ==
  /\ op = "scrub_again"
  /\ prev.exc = "None"
  /\ prev.val # <<>>
  /\ ret.exc = "IndexError"
  /\ disk.files[DocName] = prev.val

\* ------------------------------------------------------------------------
\* The boundary cleanup of the front cut.

\* After the furthest marker end e come k characters that are no letters
\* and then a letter.
LetterAfter(text, e, k) ==
  /\ e + k + 1 <= Len(text)
  /\ \A i \in (e + 1)..(e + k) : ~IsAlpha(text[i])
  /\ IsAlpha(text[e + k + 1])

\* C12: when a front marker occurs and the furthest marker end is followed
\* by one or two characters that are no letters and then by a letter,
\* cut_head advances the cut past those one or two characters: the segment
\* it returns begins at that letter.
C12_CleanupSkipsPunctuation ==
  (op = "cut_head" /\ OccurringMarkers(argText, argStops) # {}) =>
    \A k \in 1..2 :
      LetterAfter(argText, FurthestEnd(argText, argStops), k) =>
        /\ ret.exc = "None"
        /\ ret.val = SliceFrom(argText, FurthestEnd(argText, argStops) + k)

\* ------------------------------------------------------------------------
\* The output files of a batch run.

\* The entry of the corpus the k-th call of __call__ was made on.
CalledEntry(k) == corpus[calls[k].folder][calls[k].file]

\* C13: once scrub_pmc has returned, every file counted as scrubbed has in
\* the shared output directory an output file that holds its own scrubbed
\* text: no output of a scrubbed file is overwritten by that of another
\* file of the run, also when two subfolders hold files of the same name.
C13_EveryScrubbedFileHasItsOutput ==
  pc = "done" =>
    \A k \in Completed :
      disk.files[CalledEntry(k).name] = Scrubbed(TextOf(CalledEntry(k).kind)).val

====
